---- MODULE Spec2Model ----
(***************************************************************************)
(* split_schema.py: one pass over a GraphQL schema document.  The text is  *)
(* cut into blocks by re.split, each block is trimmed, enum blocks are     *)
(* skipped, every other block is appended to the list of the first         *)
(* category of FILE_MAPPINGS one of whose patterns matches it (the Game    *)
(* type patched on the way), else to the list the fallback keywords pick,  *)
(* and each list except the placeholder's is written to its file.          *)
(*                                                                         *)
(* A text is the sequence of its characters, each a one-character string,  *)
(* so that trimming, prefix tests, substring tests and the regular         *)
(* expressions are computed on characters as Python computes them.         *)
(***************************************************************************)
EXTENDS Naturals, Sequences, FiniteSets

(***************************************************************************)
(* Bounds of the model.                                                    *)
(***************************************************************************)
\* The longest source document, in pieces of DeclLibrary.
MaxDecls == 2

(***************************************************************************)
(* Characters and the str / re primitives the script uses.                 *)
(***************************************************************************)
Lower == {"a","b","c","d","e","f","g","h","i","j","k","l","m",
          "n","o","p","q","r","s","t","u","v","w","x","y","z"}
Upper == {"A","B","C","D","E","F","G","H","I","J","K","L","M",
          "N","O","P","Q","R","S","T","U","V","W","X","Y","Z"}
Digit == {"0","1","2","3","4","5","6","7","8","9"}

\* \s of re and the characters str.strip() removes (the ASCII ones in use)
IsSpace(c) == c \in {" ", "\n", "\t"}

\* \w of re
IsWord(c) == c \in Lower \cup Upper \cup Digit \cup {"_"}

SetMin(S) == CHOOSE x \in S : \A y \in S : x <= y

\* s[i:i+len(p)] == p, with i counted from 1
StartsAt(s, i, p) == /\ i + Len(p) - 1 <= Len(s)
                     /\ SubSeq(s, i, i + Len(p) - 1) = p

\* str.startswith
startswith(s, p) == StartsAt(s, 1, p)

\* p in s
Contains(s, p) == \E i \in 1..(Len(s) + 1) : StartsAt(s, i, p)

\* the last position up to q that holds no white space, 0 if there is none
RECURSIVE LastNonSpace(_, _)
LastNonSpace(s, q) ==
    IF q = 0 \/ ~IsSpace(s[q]) THEN q ELSE LastNonSpace(s, q - 1)

\* the first position from q on that holds no white space, Len(s) + 1 if none
RECURSIVE FirstNonSpace(_, _)
FirstNonSpace(s, q) ==
    IF q > Len(s) \/ ~IsSpace(s[q]) THEN q ELSE FirstNonSpace(s, q + 1)

\* str.strip()
strip(s) == SubSeq(s, FirstNonSpace(s, 1), LastNonSpace(s, Len(s)))

\* the last position up to q that holds c, 0 if there is none
RECURSIVE LastIndex(_, _, _)
LastIndex(s, c, q) ==
    IF q = 0 \/ s[q] = c THEN q ELSE LastIndex(s, c, q - 1)

\* str.rfind(c), counted from 1: 0 stands for Python's -1
rfind(s, c) == LastIndex(s, c, Len(s))

(***************************************************************************)
(* The block extractor: re.split(pattern, content) with                    *)
(*   pattern = (?=\n(?:#.*\n)*\s*(?:type|input|enum|interface|union|scalar)\s+\w+) *)
(* The pattern is a lookahead, so it matches the empty string at every     *)
(* position p where the text from p on reads: a newline, any number of     *)
(* whole comment lines, white space, a keyword, white space, a word.       *)
(***************************************************************************)
Keywords == { <<"t","y","p","e">>, <<"i","n","p","u","t">>, <<"e","n","u","m">>, <<"i","n","t","e","r","f","a","c","e">>, <<"u","n","i","o","n">>, <<"s","c","a","l","a","r">> }

\* (?:#.*\n)* from position q: the position after the last whole comment line
RECURSIVE SkipCommentLines(_, _)
SkipCommentLines(s, q) ==
    IF q <= Len(s) /\ s[q] = "#" /\ \E e \in q..Len(s) : s[e] = "\n"
    THEN SkipCommentLines(s, SetMin({e \in q..Len(s) : s[e] = "\n"}) + 1)
    ELSE q

\* \s* from position q
RECURSIVE SkipSpace(_, _)
SkipSpace(s, q) ==
    IF q <= Len(s) /\ IsSpace(s[q]) THEN SkipSpace(s, q + 1) ELSE q

\* (?:type|input|enum|interface|union|scalar)\s+\w+ at position q
KeywordAt(s, q) ==
    \E kw \in Keywords :
        /\ StartsAt(s, q, kw)
        /\ LET r == q + Len(kw)
           IN  /\ r <= Len(s)
               /\ IsSpace(s[r])
               /\ LET w == SkipSpace(s, r) IN w <= Len(s) /\ IsWord(s[w])

\* the lookahead succeeds at position p
Boundary(s, p) ==
    /\ s[p] = "\n"
    /\ KeywordAt(s, SkipSpace(s, SkipCommentLines(s, p + 1)))

\* the pieces of s from position from on, cut before every position of cuts
RECURSIVE Pieces(_, _, _)
Pieces(s, from, cuts) ==
    IF cuts = {} THEN << SubSeq(s, from, Len(s)) >>
    ELSE LET c == SetMin(cuts)
         IN  << SubSeq(s, from, c - 1) >> \o Pieces(s, c, cuts \ {c})

\* re.split(pattern, content): an empty match splits wherever it occurs
re_split(s) == Pieces(s, 1, {p \in 1..Len(s) : Boundary(s, p)})

(***************************************************************************)
(* Configuration.                                                          *)
(***************************************************************************)
GAME_ADDITIONS ==
    <<"\n"," "," ","#"," ","=","=","="," ","R","E","C","U","R","R","I","N","G"," ","G","A","M","E",
    " ","R","E","L","A","T","I","O","N","S","H","I","P"," ","(","N","E","W",")"," ","=","=","=",
    "\n"," "," ","#"," ","L","i","n","k"," ","t","o"," ","t","h","e"," ","c","a","n","o","n","i",
    "c","a","l"," ","r","e","c","u","r","r","i","n","g"," ","g","a","m","e"," ","(","i","f"," ","t",
    "h","i","s"," ","i","s"," ","a"," ","r","e","g","u","l","a","r"," ","g","a","m","e"," ","i","n",
    "s","t","a","n","c","e",")","\n"," "," ","r","e","c","u","r","r","i","n","g","G","a","m","e",
    "I","d",":"," ","I","D"," ","\n"," "," "," "," ","@","i","n","d","e","x","(","n","a","m","e",
    ":"," ","\"","b","y","R","e","c","u","r","r","i","n","g","G","a","m","e","\"",","," ","s","o",
    "r","t","K","e","y","F","i","e","l","d","s",":"," ","[","\"","g","a","m","e","S","t","a","r",
    "t","D","a","t","e","T","i","m","e","\"","]",")","\n"," "," ","r","e","c","u","r","r","i","n",
    "g","G","a","m","e",":"," ","R","e","c","u","r","r","i","n","g","G","a","m","e"," ","@","b","e",
    "l","o","n","g","s","T","o","(","f","i","e","l","d","s",":"," ","[","\"","r","e","c","u","r",
    "r","i","n","g","G","a","m","e","I","d","\"","]",")","\n"," "," ","\n"," "," ","#"," ","=","=",
    "="," ","R","E","C","U","R","R","I","N","G"," ","G","A","M","E"," ","A","S","S","I","G","N","M",
    "E","N","T"," ","(","N","E","W",")"," ","=","=","=","\n"," "," ","r","e","c","u","r","r","i",
    "n","g","G","a","m","e","A","s","s","i","g","n","m","e","n","t","C","o","n","f","i","d","e","n",
    "c","e",":"," ","F","l","o","a","t","\n"," "," ","r","e","c","u","r","r","i","n","g","G","a",
    "m","e","A","s","s","i","g","n","m","e","n","t","S","t","a","t","u","s",":"," ","R","e","c","u",
    "r","r","i","n","g","G","a","m","e","A","s","s","i","g","n","m","e","n","t","S","t","a","t","u",
    "s"," ","\n"," "," "," "," ","@","d","e","f","a","u","l","t","(","v","a","l","u","e",":"," ",
    "\"","P","E","N","D","I","N","G","_","A","S","S","I","G","N","M","E","N","T","\"",")","\n"," ",
    " ","\n"," "," ","#"," ","=","=","="," ","S","C","H","E","D","U","L","E"," ","T","R","A","C",
    "K","I","N","G"," ","(","N","E","W",")"," ","=","=","=","\n"," "," ","w","a","s","S","c","h",
    "e","d","u","l","e","d","I","n","s","t","a","n","c","e",":"," ","B","o","o","l","e","a","n"," ",
    "@","d","e","f","a","u","l","t","(","v","a","l","u","e",":"," ","\"","f","a","l","s","e","\"",
    ")","\n"," "," ","d","e","v","i","a","t","i","o","n","N","o","t","e","s",":"," ","S","t","r",
    "i","n","g","\n"," "," ","\n"," "," ","#"," ","=","=","="," ","I","N","S","T","A","N","C","E",
    " ","M","E","T","A","D","A","T","A"," ","(","N","E","W",")"," ","=","=","=","\n"," "," ","i",
    "n","s","t","a","n","c","e","N","u","m","b","e","r",":"," ","I","n","t"," ","\n"," "," ","i",
    "s","R","e","p","l","a","c","e","m","e","n","t","I","n","s","t","a","n","c","e",":"," ","B","o",
    "o","l","e","a","n"," ","@","d","e","f","a","u","l","t","(","v","a","l","u","e",":"," ","\"",
    "f","a","l","s","e","\"",")","\n"," "," ","r","e","p","l","a","c","e","m","e","n","t","R","e",
    "a","s","o","n",":"," ","S","t","r","i","n","g","\n">>

\* A pattern ^lit, ^lit\b or ^lit.*rest as [lit, wb, rest]; the dict in
\* insertion order as a sequence of [name, patterns].
FILE_MAPPINGS ==
    <<
    [name |-> "10-entities.graphql", patterns |-> <<
        \* r"^type Entity\b"
        [lit |-> <<"t","y","p","e"," ","E","n","t","i","t","y">>, wb |-> TRUE, rest |-> <<>>],
        \* r"^type BackgroundTask\b"
        [lit |-> <<"t","y","p","e"," ","B","a","c","k","g","r","o","u","n","d","T","a","s","k">>, wb |-> TRUE, rest |-> <<>>] >>],
    [name |-> "20-venues.graphql", patterns |-> <<
        \* r"^type Venue\b"
        [lit |-> <<"t","y","p","e"," ","V","e","n","u","e">>, wb |-> TRUE, rest |-> <<>>],
        \* r"^type VenueDetails\b"
        [lit |-> <<"t","y","p","e"," ","V","e","n","u","e","D","e","t","a","i","l","s">>, wb |-> TRUE, rest |-> <<>>],
        \* r"^type VenueMetricsResult\b"
        [lit |-> <<"t","y","p","e"," ","V","e","n","u","e","M","e","t","r","i","c","s","R","e","s","u","l","t">>, wb |-> TRUE, rest |-> <<>>],
        \* r"^type VenueMetricsPreview\b"
        [lit |-> <<"t","y","p","e"," ","V","e","n","u","e","M","e","t","r","i","c","s","P","r","e","v","i","e","w">>, wb |-> TRUE, rest |-> <<>>],
        \* r"^input RecalculateVenueDetails"
        [lit |-> <<"i","n","p","u","t"," ","R","e","c","a","l","c","u","l","a","t","e","V","e","n","u","e","D","e",
                "t","a","i","l","s">>, wb |-> FALSE, rest |-> <<>>] >>],
    [name |-> "30-games.graphql", patterns |-> <<
        \* r"^type Game\b"
        [lit |-> <<"t","y","p","e"," ","G","a","m","e">>, wb |-> TRUE, rest |-> <<>>],
        \* r"^type GameCost"
        [lit |-> <<"t","y","p","e"," ","G","a","m","e","C","o","s","t">>, wb |-> FALSE, rest |-> <<>>],
        \* r"^type GameFinancialSnapshot"
        [lit |-> <<"t","y","p","e"," ","G","a","m","e","F","i","n","a","n","c","i","a","l","S","n","a","p","s","h",
                "o","t">>, wb |-> FALSE, rest |-> <<>>],
        \* r"^type TournamentStructure"
        [lit |-> <<"t","y","p","e"," ","T","o","u","r","n","a","m","e","n","t","S","t","r","u","c","t","u","r","e">>, wb |-> FALSE, rest |-> <<>>],
        \* r"^type TournamentLevelData"
        [lit |-> <<"t","y","p","e"," ","T","o","u","r","n","a","m","e","n","t","L","e","v","e","l","D","a","t","a">>, wb |-> FALSE, rest |-> <<>>],
        \* r"^type CashStructure"
        [lit |-> <<"t","y","p","e"," ","C","a","s","h","S","t","r","u","c","t","u","r","e">>, wb |-> FALSE, rest |-> <<>>],
        \* r"^type RakeStructure"
        [lit |-> <<"t","y","p","e"," ","R","a","k","e","S","t","r","u","c","t","u","r","e">>, wb |-> FALSE, rest |-> <<>>],
        \* r"^type Consolidation"
        [lit |-> <<"t","y","p","e"," ","C","o","n","s","o","l","i","d","a","t","i","o","n">>, wb |-> FALSE, rest |-> <<>>],
        \* r"^input SaveGame"
        [lit |-> <<"i","n","p","u","t"," ","S","a","v","e","G","a","m","e">>, wb |-> FALSE, rest |-> <<>>],
        \* r"^input GamePreview"
        [lit |-> <<"i","n","p","u","t"," ","G","a","m","e","P","r","e","v","i","e","w">>, wb |-> FALSE, rest |-> <<>>] >>],
    [name |-> "40-tournaments.graphql", patterns |-> <<
        \* r"^type TournamentSeries"
        [lit |-> <<"t","y","p","e"," ","T","o","u","r","n","a","m","e","n","t","S","e","r","i","e","s">>, wb |-> FALSE, rest |-> <<>>] >>],
    [name |-> "50-players.graphql", patterns |-> <<
        \* r"^type Player"
        [lit |-> <<"t","y","p","e"," ","P","l","a","y","e","r">>, wb |-> FALSE, rest |-> <<>>],
        \* r"^type KnownPlayerIdentity"
        [lit |-> <<"t","y","p","e"," ","K","n","o","w","n","P","l","a","y","e","r","I","d","e","n","t","i","t","y">>, wb |-> FALSE, rest |-> <<>>],
        \* r"^type Ticket"
        [lit |-> <<"t","y","p","e"," ","T","i","c","k","e","t">>, wb |-> FALSE, rest |-> <<>>],
        \* r"^type MarketingMessage"
        [lit |-> <<"t","y","p","e"," ","M","a","r","k","e","t","i","n","g","M","e","s","s","a","g","e">>, wb |-> FALSE, rest |-> <<>>],
        \* r"^type PlayerMarketing"
        [lit |-> <<"t","y","p","e"," ","P","l","a","y","e","r","M","a","r","k","e","t","i","n","g">>, wb |-> FALSE, rest |-> <<>>] >>],
    [name |-> "60-financials.graphql", patterns |-> <<
        \* r"^type CostItem"
        [lit |-> <<"t","y","p","e"," ","C","o","s","t","I","t","e","m">>, wb |-> FALSE, rest |-> <<>>],
        \* r"^type GameCostLineItem"
        [lit |-> <<"t","y","p","e"," ","G","a","m","e","C","o","s","t","L","i","n","e","I","t","e","m">>, wb |-> FALSE, rest |-> <<>>] >>],
    [name |-> "80-scrapers.graphql", patterns |-> <<
        \* r"^type Scraper"
        [lit |-> <<"t","y","p","e"," ","S","c","r","a","p","e","r">>, wb |-> FALSE, rest |-> <<>>],
        \* r"^type Scrape"
        [lit |-> <<"t","y","p","e"," ","S","c","r","a","p","e">>, wb |-> FALSE, rest |-> <<>>],
        \* r"^type S3"
        [lit |-> <<"t","y","p","e"," ","S","3">>, wb |-> FALSE, rest |-> <<>>],
        \* r"^type DataSync"
        [lit |-> <<"t","y","p","e"," ","D","a","t","a","S","y","n","c">>, wb |-> FALSE, rest |-> <<>>],
        \* r"^input Scrape"
        [lit |-> <<"i","n","p","u","t"," ","S","c","r","a","p","e">>, wb |-> FALSE, rest |-> <<>>],
        \* r"^input SaveTournament"
        [lit |-> <<"i","n","p","u","t"," ","S","a","v","e","T","o","u","r","n","a","m","e","n","t">>, wb |-> FALSE, rest |-> <<>>],
        \* r"^type Gap"
        [lit |-> <<"t","y","p","e"," ","G","a","p">>, wb |-> FALSE, rest |-> <<>>],
        \* r"^type CachingStats"
        [lit |-> <<"t","y","p","e"," ","C","a","c","h","i","n","g","S","t","a","t","s">>, wb |-> FALSE, rest |-> <<>>] >>],
    [name |-> "85-social.graphql", patterns |-> <<
        \* r"^type Social"
        [lit |-> <<"t","y","p","e"," ","S","o","c","i","a","l">>, wb |-> FALSE, rest |-> <<>>],
        \* r"^input Social"
        [lit |-> <<"i","n","p","u","t"," ","S","o","c","i","a","l">>, wb |-> FALSE, rest |-> <<>>],
        \* r"^input AddSocial"
        [lit |-> <<"i","n","p","u","t"," ","A","d","d","S","o","c","i","a","l">>, wb |-> FALSE, rest |-> <<>>],
        \* r"^input UpdateSocial"
        [lit |-> <<"i","n","p","u","t"," ","U","p","d","a","t","e","S","o","c","i","a","l">>, wb |-> FALSE, rest |-> <<>>],
        \* r"^input SchedulePost"
        [lit |-> <<"i","n","p","u","t"," ","S","c","h","e","d","u","l","e","P","o","s","t">>, wb |-> FALSE, rest |-> <<>>] >>],
    [name |-> "90-staff.graphql", patterns |-> <<
        \* r"^type User"
        [lit |-> <<"t","y","p","e"," ","U","s","e","r">>, wb |-> FALSE, rest |-> <<>>],
        \* r"^type Staff"
        [lit |-> <<"t","y","p","e"," ","S","t","a","f","f">>, wb |-> FALSE, rest |-> <<>>],
        \* r"^type Asset"
        [lit |-> <<"t","y","p","e"," ","A","s","s","e","t">>, wb |-> FALSE, rest |-> <<>>],
        \* r"^input CreateUser"
        [lit |-> <<"i","n","p","u","t"," ","C","r","e","a","t","e","U","s","e","r">>, wb |-> FALSE, rest |-> <<>>],
        \* r"^input UpdateUser"
        [lit |-> <<"i","n","p","u","t"," ","U","p","d","a","t","e","U","s","e","r">>, wb |-> FALSE, rest |-> <<>>] >>],
    [name |-> "99-mutations.graphql", patterns |-> <<
        \* r"^type Query"
        [lit |-> <<"t","y","p","e"," ","Q","u","e","r","y">>, wb |-> FALSE, rest |-> <<>>],
        \* r"^type Mutation"
        [lit |-> <<"t","y","p","e"," ","M","u","t","a","t","i","o","n">>, wb |-> FALSE, rest |-> <<>>],
        \* r"^type Subscription"
        [lit |-> <<"t","y","p","e"," ","S","u","b","s","c","r","i","p","t","i","o","n">>, wb |-> FALSE, rest |-> <<>>],
        \* r"^type .*Response"
        [lit |-> <<"t","y","p","e"," ">>, wb |-> FALSE, rest |-> <<"R","e","s","p","o","n","s","e">>],
        \* r"^type .*Connection"
        [lit |-> <<"t","y","p","e"," ">>, wb |-> FALSE, rest |-> <<"C","o","n","n","e","c","t","i","o","n">>] >>] >>

PLACEHOLDER == "00-enums.graphql"
GAMES_FILE == "30-games.graphql"
PLAYERS_FILE == "50-players.graphql"
VENUES_FILE == "20-venues.graphql"
MUTATIONS_FILE == "99-mutations.graphql"

\* list(files_content.keys()): the keys of FILE_MAPPINGS, then the placeholder
FileOrder == [c \in 1..(Len(FILE_MAPPINGS) + 1) |->
                 IF c <= Len(FILE_MAPPINGS) THEN FILE_MAPPINGS[c].name ELSE PLACEHOLDER]
FileNames == {FileOrder[c] : c \in 1..Len(FileOrder)}

\* the characters of a file name, for the header line of its file
NameText(name) ==
    CASE name = "10-entities.graphql" -> <<"1","0","-","e","n","t","i","t","i","e","s",".","g","r","a","p","h","q","l">>
      [] name = "20-venues.graphql" -> <<"2","0","-","v","e","n","u","e","s",".","g","r","a","p","h","q","l">>
      [] name = "30-games.graphql" -> <<"3","0","-","g","a","m","e","s",".","g","r","a","p","h","q","l">>
      [] name = "40-tournaments.graphql" -> <<"4","0","-","t","o","u","r","n","a","m","e","n","t","s",".","g","r","a","p","h","q","l">>
      [] name = "50-players.graphql" -> <<"5","0","-","p","l","a","y","e","r","s",".","g","r","a","p","h","q","l">>
      [] name = "60-financials.graphql" -> <<"6","0","-","f","i","n","a","n","c","i","a","l","s",".","g","r","a","p","h","q","l">>
      [] name = "80-scrapers.graphql" -> <<"8","0","-","s","c","r","a","p","e","r","s",".","g","r","a","p","h","q","l">>
      [] name = "85-social.graphql" -> <<"8","5","-","s","o","c","i","a","l",".","g","r","a","p","h","q","l">>
      [] name = "90-staff.graphql" -> <<"9","0","-","s","t","a","f","f",".","g","r","a","p","h","q","l">>
      [] name = "99-mutations.graphql" -> <<"9","9","-","m","u","t","a","t","i","o","n","s",".","g","r","a","p","h","q","l">>
      [] name = "00-enums.graphql" -> <<"0","0","-","e","n","u","m","s",".","g","r","a","p","h","q","l">>

\* re.search(pat, block): without re.MULTILINE ^ is the start of the block,
\* \b after a word character needs the end or a non-word character, and
\* .* stays on one line
re_search(pat, s) ==
    LET n == Len(pat.lit)
    IN  /\ startswith(s, pat.lit)
        /\ pat.wb => (n = Len(s) \/ ~IsWord(s[n + 1]))
        /\ pat.rest # <<>> =>
              \E i \in (n + 1)..Len(s) :
                  /\ StartsAt(s, i, pat.rest)
                  /\ \A k \in (n + 1)..(i - 1) : s[k] # "\n"

(***************************************************************************)
(* The loop body of split_schema, lines 138-163, on a trimmed block.       *)
(***************************************************************************)
GAME_MARKER == <<"t","y","p","e"," ","G","a","m","e"," ","@","m","o","d","e","l">>

\* for pat in patterns: if re.search(pat, block): ... break
RECURSIVE ScanPatterns(_, _, _)
ScanPatterns(patterns, j, block) ==
    IF j > Len(patterns) THEN FALSE
    ELSE IF re_search(patterns[j], block) THEN TRUE
    ELSE ScanPatterns(patterns, j + 1, block)

\* for filename, patterns in FILE_MAPPINGS.items(): ... if assigned: break
\* The index of the category the loops append to, 0 when assigned stays False.
RECURSIVE ScanCategories(_, _)
ScanCategories(c, block) ==
    IF c > Len(FILE_MAPPINGS) THEN 0
    ELSE IF ScanPatterns(FILE_MAPPINGS[c].patterns, 1, block) THEN c
    ELSE ScanCategories(c + 1, block)

\* Patch with the fragment spliced after the brace instead of before it
Patch_AfterBrace(block) ==
    LET last_brace_idx == rfind(block, "}")
    IN  IF last_brace_idx # 0
        THEN SubSeq(block, 1, last_brace_idx) \o GAME_ADDITIONS
                 \o SubSeq(block, last_brace_idx + 1, Len(block))
        ELSE block

\* block[:last_brace_idx] + GAME_ADDITIONS + block[last_brace_idx:]
Patch(block) ==
    LET last_brace_idx == rfind(block, "}")
    IN  IF last_brace_idx # 0
        THEN SubSeq(block, 1, last_brace_idx - 1) \o GAME_ADDITIONS
                 \o SubSeq(block, last_brace_idx, Len(block))
        ELSE block

\* the condition of line 145, for a block the category named filename matched
Patches(block, filename) == Contains(block, GAME_MARKER) /\ filename = GAMES_FILE

\* Fallback with the Venue test moved before the Player test
Fallback_VenueFirst(block) ==
    IF Contains(block, <<"G","a","m","e">>) THEN GAMES_FILE
    ELSE IF Contains(block, <<"V","e","n","u","e">>) THEN VENUES_FILE
    ELSE IF Contains(block, <<"P","l","a","y","e","r">>) THEN PLAYERS_FILE
    ELSE MUTATIONS_FILE

\* the if / elif chain of lines 160-163
Fallback(block) ==
    IF Contains(block, <<"G","a","m","e">>) THEN GAMES_FILE
    ELSE IF Contains(block, <<"P","l","a","y","e","r">>) THEN PLAYERS_FILE
    ELSE IF Contains(block, <<"V","e","n","u","e">>) THEN VENUES_FILE
    ELSE MUTATIONS_FILE

\* ClassifyStep without "if assigned: break": the outer loop goes on, and the
\* block is appended to every category one of whose patterns matches
ClassifyStep_NoBreak(fc, block) ==
    LET hit == {FILE_MAPPINGS[c].name :
                   c \in {d \in 1..Len(FILE_MAPPINGS) :
                             ScanPatterns(FILE_MAPPINGS[d].patterns, 1, block)}}
    IN  IF hit # {}
        THEN [f \in FileNames |->
                 IF f \in hit
                 THEN Append(fc[f], IF Patches(block, f) THEN Patch(block) ELSE block)
                 ELSE fc[f]]
        ELSE [fc EXCEPT ![Fallback(block)] = Append(@, block)]

\* ClassifyStep with list.insert(0, block) in place of list.append(block)
ClassifyStep_Prepend(fc, block) ==
    LET c == ScanCategories(1, block)
    IN  IF c # 0
        THEN LET filename == FILE_MAPPINGS[c].name
             IN  [fc EXCEPT ![filename] =
                     << IF Patches(block, filename) THEN Patch(block) ELSE block >> \o @]
        ELSE [fc EXCEPT ![Fallback(block)] = << block >> \o @]

\* ClassifyStep with "assigned = False" set once before the loop over the blocks:
\* once a block has been appended, assigned stays True, the outer loop breaks
\* after its first category and the fallback is never reached
ClassifyStep_StickyAssigned(fc, block) ==
    LET c == ScanCategories(1, block)
        first == FILE_MAPPINGS[1]
    IN  IF \A f \in FileNames : fc[f] = <<>>
        THEN IF c # 0
             THEN LET filename == FILE_MAPPINGS[c].name
                  IN  [fc EXCEPT ![filename] =
                          Append(@, IF Patches(block, filename) THEN Patch(block) ELSE block)]
             ELSE [fc EXCEPT ![Fallback(block)] = Append(@, block)]
        ELSE IF ScanPatterns(first.patterns, 1, block)
             THEN [fc EXCEPT ![first.name] = Append(@, block)]
             ELSE fc

\* files_content after lines 138-163 have run on block
ClassifyStep(fc, block) ==
    LET c == ScanCategories(1, block)
    IN  IF c # 0
        THEN LET filename == FILE_MAPPINGS[c].name
             IN  [fc EXCEPT ![filename] =
                     Append(@, IF Patches(block, filename) THEN Patch(block) ELSE block)]
        ELSE [fc EXCEPT ![Fallback(block)] = Append(@, block)]

(***************************************************************************)
(* The writer, lines 166-174.                                              *)
(***************************************************************************)
\* "\n\n".join(blocks)
RECURSIVE JoinBlocks(_)
JoinBlocks(list) ==
    IF list = <<>> THEN <<>>
    ELSE IF Len(list) = 1 THEN list[1]
    ELSE list[1] \o <<"\n","\n">> \o JoinBlocks(Tail(list))

\* what the three f.write calls put in the file
FileText(filename, list) ==
    <<"#"," ">> \o NameText(filename) \o <<"\n">>
        \o <<"#"," ","=","=","=","=","=","=","=","=","=","=","=","=","=","=","=","=","=","=","=","=","=","=",
        "=","=","=","=","=","=","=","=","=","=","=","=","=","=","=","=","=","=","=","=","\n","\n">>
        \o JoinBlocks(list)

(***************************************************************************)
(* Source documents: up to MaxDecls pieces of DeclLibrary, each on a line  *)
(* of its own (two of them after a blank line), a newline at the end.      *)
(***************************************************************************)
DeclLibrary == <<
    <<"\n","t","y","p","e"," ","E","n","t","i","t","y"," ","{","}">>,
    <<"t","y","p","e"," ","G","a","m","e"," ","@","m","o","d","e","l"," ","{","i","d",":"," ","I","D",
        "}">>,
    <<"t","y","p","e"," ","G","a","m","e"," ","@","m","o","d","e","l">>,
    <<"t","y","p","e"," ","G","a","m","e","C","o","s","t","L","i","n","e","I","t","e","m"," ","{","}">>,
    <<"e","n","u","m"," ","S","t","a","t","u","s"," ","{","A","}">>,
    <<"e","n","u","m","\t","S","t","a","t","u","s"," ","{","A","}">>,
    <<"#"," ","P","l","a","y","e","r"," ","V","e","n","u","e">>,
    <<"i","n","t","e","r","f","a","c","e"," ","G","a","m","e","P","l","a","y","e","r"," ","{","}">>,
    <<"t","y","p","e"," ","P","l","a","y","e","r","R","e","s","p","o","n","s","e"," ","{","}">>,
    <<"s","c","a","l","a","r"," ","A","W","S","D","a","t","e">>,
    <<"e","x","t","e","n","d"," ","t","y","p","e"," ","G","a","m","e"," ","@","m","o","d","e","l"," ",
        "{","}">>,
    <<"\n","u","n","i","o","n"," ","P","l","a","c","e"," ","="," ","V","e","n","u","e">> >>

RECURSIVE JoinDecls(_, _)
JoinDecls(choice, k) ==
    IF k > Len(choice) THEN <<>>
    ELSE DeclLibrary[choice[k]] \o <<"\n">> \o JoinDecls(choice, k + 1)

Documents ==
    UNION { { JoinDecls(choice, 1) : choice \in [1..n -> 1..Len(DeclLibrary)] } :
            n \in 1..MaxDecls }

(***************************************************************************)
(* State.                                                                  *)
(***************************************************************************)
VARIABLES
    pc,             \* where split_schema is
    dirExists,      \* os.path.exists(OUTPUT_DIR)
    source,         \* SOURCE_FILE on disk: [exists, text]
    content,        \* f.read()
    blocks,         \* re.split(pattern, content)
    idx,            \* the position of "for block in blocks"
    files_content,  \* filename -> list of block texts
    origin,         \* filename -> for each list entry, the index in blocks it came from
    wi,             \* the position of "for filename, blocks in files_content.items()"
    opened,         \* the files open(full_path, 'w') was called on, in order
    written,        \* the output files on disk: filename -> [exists, text]
    log             \* what was printed

vars == << pc, dirExists, source, content, blocks, idx, files_content, origin,
           wi, opened, written, log >>

NoFile == [exists |-> FALSE, text |-> <<>>]

Init ==
    /\ pc = "makedirs"
    /\ dirExists \in BOOLEAN
    /\ source \in {NoFile} \cup {[exists |-> TRUE, text |-> d] : d \in Documents}
    /\ content = <<>>
    /\ blocks = <<>>
    /\ idx = 1
    /\ files_content = [f \in FileNames |-> <<>>]
    /\ origin = [f \in FileNames |-> <<>>]
    /\ wi = 1
    /\ opened = <<>>
    /\ written = [f \in FileNames |-> NoFile]
    /\ log = <<>>

(***************************************************************************)
(* Lines 106-116: the output directory, then the source.                   *)
(***************************************************************************)
MakeDirs ==
    /\ pc = "makedirs"
    /\ dirExists' = TRUE
    /\ log' = IF dirExists THEN log ELSE Append(log, <<"Created directory">>)
    /\ pc' = "open"
    /\ UNCHANGED << source, content, blocks, idx, files_content, origin, wi, opened, written >>

ReadSource ==
    /\ pc = "open"
    /\ source.exists
    /\ content' = source.text
    /\ pc' = "split"
    /\ UNCHANGED << dirExists, source, blocks, idx, files_content, origin, wi, opened,
                    written, log >>

\* OnFileNotFound without the return: the run goes on to the split
OnFileNotFound_NoReturn == "split"

\* except FileNotFoundError: print(...); print(...); return
OnFileNotFound == "returned"

SourceNotFound ==
    /\ pc = "open"
    /\ ~source.exists
    /\ log' = log \o << <<"Error: Could not find">>, <<"Please ensure">> >>
    /\ pc' = OnFileNotFound
    /\ UNCHANGED << dirExists, source, content, blocks, idx, files_content, origin, wi,
                    opened, written >>

(***************************************************************************)
(* Lines 121-127: the split and the empty lists.                           *)
(***************************************************************************)
Split ==
    /\ pc = "split"
    /\ blocks' = re_split(content)
    /\ files_content' = [f \in FileNames |-> <<>>]
    /\ log' = Append(log, <<"Found blocks", Len(blocks')>>)
    /\ idx' = 1
    /\ pc' = "classify"
    /\ UNCHANGED << dirExists, source, content, origin, wi, opened, written >>

(***************************************************************************)
(* Lines 129-163: one iteration of "for block in blocks".                  *)
(***************************************************************************)
\* the entries of origin for the entries a step added to the lists
Grown(old, new, i) ==
    [f \in FileNames |->
        origin[f] \o [k \in 1..(Len(new[f]) - Len(old[f])) |-> i]]

\* if not block: continue
SkipEmpty ==
    /\ pc = "classify"
    /\ idx <= Len(blocks)
    /\ strip(blocks[idx]) = <<>>
    /\ idx' = idx + 1
    /\ UNCHANGED << pc, dirExists, source, content, blocks, files_content, origin, wi,
                    opened, written, log >>

\* if block.startswith("enum "): continue
IsEnumBlock(block) == startswith(block, <<"e","n","u","m"," ">>)

SkipEnum ==
    /\ pc = "classify"
    /\ idx <= Len(blocks)
    /\ strip(blocks[idx]) # <<>>
    /\ IsEnumBlock(strip(blocks[idx]))
    /\ idx' = idx + 1
    /\ UNCHANGED << pc, dirExists, source, content, blocks, files_content, origin, wi,
                    opened, written, log >>

Classify ==
    /\ pc = "classify"
    /\ idx <= Len(blocks)
    /\ LET block == strip(blocks[idx])
           c == ScanCategories(1, block)
       IN  /\ block # <<>>
           /\ ~IsEnumBlock(block)
           /\ files_content' = ClassifyStep(files_content, block)
           /\ origin' = Grown(files_content, files_content', idx)
           /\ log' = IF c # 0 /\ Patches(block, FILE_MAPPINGS[c].name)
                     THEN Append(log, <<">> Found Game type">>)
                     ELSE log
    /\ idx' = idx + 1
    /\ UNCHANGED << pc, dirExists, source, content, blocks, wi, opened, written >>

\* the for loop is exhausted
EndClassify ==
    /\ pc = "classify"
    /\ idx > Len(blocks)
    /\ wi' = 1
    /\ pc' = "write"
    /\ UNCHANGED << dirExists, source, content, blocks, idx, files_content, origin,
                    opened, written, log >>

(***************************************************************************)
(* Lines 166-174: one iteration of the write loop.  The loop rebinds the   *)
(* local name blocks to each list in turn; the model keeps blocks as the   *)
(* list of the split, which nothing reads after the classification.        *)
(***************************************************************************)
\* if filename == "00-enums.graphql": continue
SkipPlaceholder ==
    /\ pc = "write"
    /\ wi <= Len(FileOrder)
    /\ FileOrder[wi] = PLACEHOLDER
    /\ wi' = wi + 1
    /\ UNCHANGED << pc, dirExists, source, content, blocks, idx, files_content, origin,
                    opened, written, log >>

WriteFile ==
    /\ pc = "write"
    /\ wi <= Len(FileOrder)
    /\ FileOrder[wi] # PLACEHOLDER
    /\ LET filename == FileOrder[wi]
       IN  /\ opened' = Append(opened, filename)
           /\ written' = [written EXCEPT ![filename] =
                             [exists |-> TRUE, text |-> FileText(filename, files_content[filename])]]
           /\ log' = Append(log, <<"Wrote blocks", Len(files_content[filename]), filename>>)
    /\ wi' = wi + 1
    /\ UNCHANGED << pc, dirExists, source, content, blocks, idx, files_content, origin >>

\* OnWriteError with the body of the loop in try / except: the loop goes on
OnWriteError_Continue(w) == [pc |-> "write", wi |-> w + 1]

\* Where the run goes when open() or f.write() raises: no except clause
\* surrounds them, so the exception leaves split_schema.
OnWriteError(w) == [pc |-> "raised", wi |-> w]

\* open(full_path, 'w') raises (truncated = FALSE: the file is untouched), or a
\* write raises after the open emptied the file (truncated = TRUE)
WriteFails ==
    /\ pc = "write"
    /\ wi <= Len(FileOrder)
    /\ FileOrder[wi] # PLACEHOLDER
    /\ \E truncated \in BOOLEAN :
          LET filename == FileOrder[wi]
          IN  /\ opened' = Append(opened, filename)
              /\ written' = IF truncated
                            THEN [written EXCEPT ![filename] = [exists |-> TRUE, text |-> <<>>]]
                            ELSE written
    /\ pc' = OnWriteError(wi).pc
    /\ wi' = OnWriteError(wi).wi
    /\ UNCHANGED << dirExists, source, content, blocks, idx, files_content, origin, log >>

Finish ==
    /\ pc = "write"
    /\ wi > Len(FileOrder)
    /\ log' = Append(log, <<"--- SPLIT COMPLETE ---">>)
    /\ pc' = "done"
    /\ UNCHANGED << dirExists, source, content, blocks, idx, files_content, origin, wi,
                    opened, written >>

Next ==
    \/ MakeDirs
    \/ ReadSource
    \/ SourceNotFound
    \/ Split
    \/ SkipEmpty
    \/ SkipEnum
    \/ Classify
    \/ EndClassify
    \/ SkipPlaceholder
    \/ WriteFile
    \/ WriteFails
    \/ Finish

Spec == Init /\ [][Next]_vars

(***************************************************************************)
(* Vocabulary of the properties.                                           *)
(***************************************************************************)
\* the entries of the category lists: << filename, position >>
Entries == UNION {{<<f, k>> : k \in 1..Len(files_content[f])} : f \in FileNames}

\* the trimmed block an entry came from, and the text the list holds for it
BlockOf(e) == strip(blocks[origin[e[1]][e[2]]])
TextOf(e) == files_content[e[1]][e[2]]

\* block i of the split is neither empty after trimming nor an enum block
Kept(i) == LET b == strip(blocks[i]) IN b # <<>> /\ ~startswith(b, <<"e","n","u","m"," ">>)

\* the classification loop has run on block i
Processed(i) == pc \in {"write", "done", "raised"} \/ (pc = "classify" /\ i < idx)

Range(seq) == {seq[k] : k \in 1..Len(seq)}

\* the concatenation of a list of texts
RECURSIVE JoinAll(_)
JoinAll(list) == IF list = <<>> THEN <<>> ELSE list[1] \o JoinAll(Tail(list))

\* the categories with a pattern that matches at the start of b
Matching(b) ==
    {c \in 1..Len(FILE_MAPPINGS) :
        \E pat \in Range(FILE_MAPPINGS[c].patterns) : re_search(pat, b)}

(***************************************************************************)
(* C1  Partition.                                                          *)
(***************************************************************************)
\* C1: once the classification loop has run on a block, the block has exactly
\* one entry among all the category lists if it is non-empty after trimming
\* and does not begin with "enum ", and none otherwise; every entry of a list
\* comes from such a block and holds its trimmed text (the Game block in its
\* patched form), and the placeholder's list stays empty.
C1_Partition ==
    /\ \A f \in FileNames : Len(origin[f]) = Len(files_content[f])
    /\ \A i \in 1..Len(blocks) :
          Cardinality({e \in Entries : origin[e[1]][e[2]] = i})
              = IF Processed(i) /\ Kept(i) THEN 1 ELSE 0
    /\ \A e \in Entries :
          /\ origin[e[1]][e[2]] \in 1..Len(blocks)
          /\ LET b == BlockOf(e)
             IN  TextOf(e) # b => e[1] = GAMES_FILE /\ Contains(b, GAME_MARKER)
    /\ files_content[PLACEHOLDER] = <<>>

\* C1 witness: the loop is over, two blocks sit in two different lists and a
\* third block of the split was dropped as empty.
C1_Witness ==
    /\ pc = "done"
    /\ \E e1, e2 \in Entries : e1[1] # e2[1]
    /\ \E i \in 1..Len(blocks) : ~Kept(i)

(***************************************************************************)
(* C2  Enum exclusion.                                                     *)
(***************************************************************************)
\* an enum declaration starts at position q of s: the keyword at the start of
\* a line, white space, a name (what the split pattern takes for one)
EnumDeclAt(s, q) ==
    /\ q = 1 \/ s[q - 1] = "\n"
    /\ StartsAt(s, q, <<"e","n","u","m">>)
    /\ q + 4 <= Len(s)
    /\ IsSpace(s[q + 4])
    /\ LET w == SkipSpace(s, q + 4) IN w <= Len(s) /\ IsWord(s[w])

HoldsEnumDecl(s) == \E q \in 1..Len(s) : EnumDeclAt(s, q)

\* C2: every enum declaration is dropped: no entry of a category list and no
\* written file holds an enum declaration.
C2_EnumsDropped ==
    /\ \A e \in Entries : ~HoldsEnumDecl(TextOf(e))
    /\ \A f \in FileNames : ~HoldsEnumDecl(written[f].text)

(***************************************************************************)
(* C3  Comment attachment.                                                 *)
(***************************************************************************)
\* position p starts a comment line that ends in a newline
CommentLineAt(s, p) ==
    /\ p = 1 \/ s[p - 1] = "\n"
    /\ s[p] = "#"
    /\ \E e \in p..Len(s) : s[e] = "\n"

\* the block of the split that holds position p of content
BlockIndex(p) ==
    SetMin({i \in 1..Len(blocks) :
               p <= Len(content) - Len(JoinAll(SubSeq(blocks, i + 1, Len(blocks))))})

\* C3: comment lines that immediately precede a top-level declaration are in
\* the block of that declaration.
C3_CommentsAttached ==
    pc \in {"classify", "write", "done", "raised"} =>
        \A p \in 1..Len(content) :
            LET d == SkipCommentLines(content, p)
            IN  CommentLineAt(content, p) /\ KeywordAt(content, d)
                    => BlockIndex(p) = BlockIndex(d)

(***************************************************************************)
(* C4  Order preservation.                                                 *)
(***************************************************************************)
\* the length of what the writer puts before the blocks of a file: "# ", the
\* name and a newline, then the rule of 44 characters and two newlines
HeaderLen(f) == 2 + Len(NameText(f)) + 1 + 44 + 2

\* where entry k of list starts in its file: after the header, the earlier
\* entries and the blank line after each of them
OffsetInFile(f, list, k) ==
    HeaderLen(f) + Len(JoinAll(SubSeq(list, 1, k - 1))) + 2 * (k - 1) + 1

\* C4: in every category list, at every point of the run, the entries come
\* in the order of the blocks of the document they hold (whether a pattern
\* or the fallback put them there), and a file that was written holds the
\* entries of its list one after the other in that order.
C4_OrderPreserved ==
    /\ \A f \in FileNames :
          \A k \in 1..Len(files_content[f]) :
              /\ LET b == BlockOf(<<f, k>>)
                 IN  files_content[f][k] = b \/ files_content[f][k] = Patch(b)
              /\ \A l \in (k + 1)..Len(files_content[f]) : origin[f][k] < origin[f][l]
    /\ \A f \in FileNames :
          written[f].text # <<>> =>
              LET list == files_content[f]
              IN  /\ \A k \in 1..Len(list) :
                        StartsAt(written[f].text, OffsetInFile(f, list, k), list[k])
                  /\ Len(written[f].text) =
                        IF list = <<>> THEN HeaderLen(f)
                        ELSE OffsetInFile(f, list, Len(list)) + Len(list[Len(list)]) - 1

\* C4 witness: a written file holds two blocks, one a pattern put in its
\* list and one the fallback put there.
C4_Witness ==
    \E f \in FileNames :
        /\ written[f].text # <<>>
        /\ \E k, l \in 1..Len(files_content[f]) :
              /\ Matching(BlockOf(<<f, k>>)) # {}
              /\ Matching(BlockOf(<<f, l>>)) = {}

(***************************************************************************)
(* C5  Injection.                                                          *)
(***************************************************************************)
\* text is b with GAME_ADDITIONS spliced in once, right before the last "}"
Injected(b, text) ==
    \E p \in 1..Len(b) :
        /\ b[p] = "}"
        /\ \A q \in (p + 1)..Len(b) : b[q] # "}"
        /\ Len(text) = Len(b) + Len(GAME_ADDITIONS)
        /\ SubSeq(text, 1, p - 1) = SubSeq(b, 1, p - 1)
        /\ SubSeq(text, p, p + Len(GAME_ADDITIONS) - 1) = GAME_ADDITIONS
        /\ SubSeq(text, p + Len(GAME_ADDITIONS), Len(text)) = SubSeq(b, p, Len(b))

\* C5: the text a list holds for a block is the block with GAME_ADDITIONS
\* inserted once right before its last "}" when a pattern put the block in
\* 30-games.graphql and the block contains "type Game @model" and a "}"; in
\* every other case (no "}", another category, the fallback) it is the
\* trimmed block itself.
C5_Injection ==
    \A e \in Entries :
        LET b == BlockOf(e)
        IN  IF /\ e[1] = GAMES_FILE
               /\ Contains(b, GAME_MARKER)
               /\ Contains(b, <<"}">>)
               /\ Matching(b) # {}
            THEN Injected(b, TextOf(e))
            ELSE TextOf(e) = b

\* C5 witness: the run is over, the games list holds a patched block, and
\* some list holds a block with the marker that was left as it was.
C5_Witness ==
    /\ pc = "done"
    /\ \E e \in Entries : TextOf(e) # BlockOf(e)
    /\ \E e \in Entries : Contains(BlockOf(e), GAME_MARKER) /\ TextOf(e) = BlockOf(e)

(***************************************************************************)
(* C6  Fallback precedence.                                                *)
(***************************************************************************)
\* C6 as claimed: a block no pattern matches goes to 50-players.graphql
\* whenever it contains "Player", and to 99-mutations.graphql when it
\* contains none of the fallback keywords.
C6_PlayerAlwaysToPlayers ==
    \A e \in Entries :
        LET b == BlockOf(e)
        IN  Matching(b) = {} =>
                /\ Contains(b, <<"P","l","a","y","e","r">>) => e[1] = PLAYERS_FILE
                /\ ( /\ ~Contains(b, <<"G","a","m","e">>)
                     /\ ~Contains(b, <<"P","l","a","y","e","r">>)
                     /\ ~Contains(b, <<"V","e","n","u","e">>) ) => e[1] = MUTATIONS_FILE

\* C6 amended: a block no pattern matches goes to 30-games.graphql when it
\* contains "Game"; when it does not and contains "Player" it goes to
\* 50-players.graphql, also when it contains "Venue"; when it contains none
\* of the three keywords it goes to 99-mutations.graphql.
C6_FallbackPrecedence ==
    \A e \in Entries :
        LET b == BlockOf(e)
            game == Contains(b, <<"G","a","m","e">>)
            player == Contains(b, <<"P","l","a","y","e","r">>)
            venue == Contains(b, <<"V","e","n","u","e">>)
        IN  Matching(b) = {} =>
                /\ game => e[1] = GAMES_FILE
                /\ (~game /\ player) => e[1] = PLAYERS_FILE
                /\ (~game /\ ~player /\ ~venue) => e[1] = MUTATIONS_FILE

\* C6 witness: the fallback has put a block with both "Player" and "Venue"
\* in 50-players.graphql, and a block with no keyword in 99-mutations.graphql.
C6_Witness ==
    /\ \E e \in Entries :
          /\ Matching(BlockOf(e)) = {}
          /\ Contains(BlockOf(e), <<"P","l","a","y","e","r">>) /\ Contains(BlockOf(e), <<"V","e","n","u","e">>)
          /\ e[1] = PLAYERS_FILE
    /\ \E e \in Entries :
          /\ Matching(BlockOf(e)) = {}
          /\ Fallback(BlockOf(e)) = MUTATIONS_FILE
          /\ e[1] = MUTATIONS_FILE

(***************************************************************************)
(* C7  Source not found.                                                   *)
(***************************************************************************)
Printed(msg) == \E k \in 1..Len(log) : log[k][1] = msg

Writable == FileNames \ {PLACEHOLDER}

CategoryOfText(b) ==
    LET hit == Matching(b)
    IN  IF hit # {} THEN FILE_MAPPINGS[SetMin(hit)].name ELSE Fallback(b)

\* C9: every block the loop has run on and kept sits in the list of the
\* category its trimmed text alone decides, whatever was processed before it;
\* two blocks with the same trimmed text are in the same list.
C9_FirstMatchDeterminism ==
    /\ \A i \in 1..Len(blocks) :
          Processed(i) =>
              LET b == strip(blocks[i])
              IN  (b # <<>> /\ ~startswith(b, <<"e","n","u","m"," ">>)) =>
                      LET list == origin[CategoryOfText(b)]
                      IN  \E k \in 1..Len(list) : list[k] = i
    /\ \A e1, e2 \in Entries : BlockOf(e1) = BlockOf(e2) => e1[1] = e2[1]

\* C9 witness: the same text occurs twice in the document, after another
\* block or not, and both occurrences are in one list.
C9_Witness ==
    \E e1, e2 \in Entries :
        /\ origin[e1[1]][e1[2]] # origin[e2[1]][e2[2]]
        /\ BlockOf(e1) = BlockOf(e2)
        /\ e1[1] = e2[1]

(***************************************************************************)
(* C10  Specific before generic in FILE_MAPPINGS.                          *)
(***************************************************************************)
\* pattern p matches every block that pattern q matches
Subsumes(p, q) ==
    /\ startswith(q.lit, p.lit)
    /\ p.wb => IF Len(q.lit) > Len(p.lit) THEN ~IsWord(q.lit[Len(p.lit) + 1]) ELSE q.wb
    /\ p.rest # <<>> =>
          \/ Contains(SubSeq(q.lit, Len(p.lit) + 1, Len(q.lit)), p.rest)
          \/ (q.rest # <<>> /\ Contains(q.rest, p.rest))

PatternsOf(f) ==
    UNION {Range(FILE_MAPPINGS[c].patterns) :
              c \in {d \in 1..Len(FILE_MAPPINGS) : FILE_MAPPINGS[d].name = f}}

\* C10: no pattern is shadowed by a more generic pattern of an earlier
\* category: a block that a pattern q of one category matches is never put in
\* another category by a pattern that matches everything q matches.
C10_SpecificBeforeGeneric ==
    \A e \in Entries :
        \A c \in Matching(BlockOf(e)) :
            FILE_MAPPINGS[c].name # e[1] =>
                \A q \in Range(FILE_MAPPINGS[c].patterns) :
                    re_search(q, BlockOf(e)) =>
                        ~\E p \in PatternsOf(e[1]) : re_search(p, BlockOf(e)) /\ Subsumes(p, q)
====
